---- MODULE Spec2Model ----
(***************************************************************************)
(* Model of scripts/check.py: the target-matrix check runner.              *)
(* One run of the script is one behaviour: the installed-target listing    *)
(* (get_installed_targets), then main's loops over platforms and triples,  *)
(* every external process invocation being one step with a                 *)
(* nondeterministic return code.                                           *)
(***************************************************************************)
EXTENDS Integers, Sequences, FiniteSets, TLC

VARIABLES
    sys_platform,   \* sys.platform of the host
    args,           \* sys.argv[1:]
    pc,             \* position of the script
    channel_i,      \* get_installed_targets: index of the loop over channels
    completed,      \* get_installed_targets: the CompletedProcess of the listing
    installed,      \* Dict[str, Set[str]] built by get_installed_targets
    os_i,           \* main: index of the loop over platforms / arguments
    t_i,            \* main: index of the loop over the triples of a platform
    command,        \* run_command: its argument
    caller,         \* run_command: who called it
    out,            \* everything printed, in order
    cmds,           \* every subprocess.run invocation, in order, with its return code
    exit_code       \* process exit status (NoExit while running)

vars == <<sys_platform, args, pc, channel_i, completed, installed, os_i, t_i,
          command, caller, out, cmds, exit_code>>

----------------------------------------------------------------------------
(* Bounds of the model *)

MaxArgs == 2        \* longest argument list
MaxRetCode == 2     \* largest return code of an external command
MaxLines == 2       \* longest generated listing output, in lines

RetCodes == 0..MaxRetCode

NoExit == -1

----------------------------------------------------------------------------
(* The catalog, lines 8-22 *)

BaseOSS ==
    << [os |-> "android", channel |-> "stable",
        ts |-> <<"aarch64-linux-android", "armv7-linux-androideabi", "i686-linux-android">>],
       [os |-> "freebsd", channel |-> "stable", ts |-> <<"x86_64-unknown-freebsd">>],
       [os |-> "linux", channel |-> "stable",
        ts |-> <<"x86_64-unknown-linux-gnu", "x86_64-unknown-linux-musl">>],
       [os |-> "macos", channel |-> "stable", ts |-> <<"x86_64-apple-darwin">>],
       [os |-> "redox", channel |-> "nightly", ts |-> <<"x86_64-unknown-redox">>],
       [os |-> "netbsd", channel |-> "stable", ts |-> <<"x86_64-unknown-netbsd">>],
       [os |-> "windows", channel |-> "stable",
        ts |-> <<"x86_64-pc-windows-gnu", "x86_64-pc-windows-msvc">>] >>

IosEntry == [os |-> "ios", channel |-> "stable", ts |-> <<"aarch64-apple-ios", "x86_64-apple-ios">>]

\* OSS after the module-level statement of lines 21-22
OSS(platform) == IF platform = "darwin" THEN Append(BaseOSS, IosEntry) ELSE BaseOSS

\* list(OSS.keys())
Keys(oss) == [k \in 1..Len(oss) |-> oss[k].os]

KeySet(oss) == {oss[k].os : k \in 1..Len(oss)}

\* OSS.get(os): the entry, or None
None == [os |-> "", channel |-> "", ts |-> <<>>]

\* a lookup that falls back to the first entry instead of None
OSSGet_FallsBack(oss, os) ==
    IF os \in KeySet(oss) THEN oss[CHOOSE k \in 1..Len(oss) : oss[k].os = os] ELSE oss[1]

OSSGet(oss, os) ==
    IF os \in KeySet(oss) THEN oss[CHOOSE k \in 1..Len(oss) : oss[k].os = os] ELSE None

Platforms == {"linux", "darwin"}

----------------------------------------------------------------------------
(* Strings as character sequences, for the substring test of line 88 *)

Chars(s) ==
    CASE s = "linux" -> <<"l", "i", "n", "u", "x">>
      [] s = "android" -> <<"a", "n", "d", "r", "o", "i", "d">>
      [] s = "freebsd" -> <<"f", "r", "e", "e", "b", "s", "d">>
      [] s = "netbsd" -> <<"n", "e", "t", "b", "s", "d">>
      [] s = "windows" -> <<"w", "i", "n", "d", "o", "w", "s">>
      [] s = "macos" -> <<"m", "a", "c", "o", "s">>
      [] s = "redox" -> <<"r", "e", "d", "o", "x">>
      [] s = "ios" -> <<"i", "o", "s">>
      [] s = "bogus-os" -> <<"b", "o", "g", "u", "s", "-", "o", "s">>
      [] s = "gnu-linux" -> <<"g", "n", "u", "-", "l", "i", "n", "u", "x">>

\* Python's `sub in s` on strings
StrIn(sub, s) ==
    \E k \in 0..(Len(Chars(s)) - Len(Chars(sub))) :
        \A m \in 1..Len(Chars(sub)) : Chars(s)[k + m] = Chars(sub)[m]

\* the names given on the command line
ArgNames == {"linux", "macos", "redox", "ios", "bogus-os", "gnu-linux"}

RECURSIVE SeqsUpTo(_, _)
SeqsUpTo(S, n) ==
    IF n = 0 THEN {<<>>}
    ELSE LET shorter == SeqsUpTo(S, n - 1)
         IN shorter \cup {Append(s, x) : s \in {q \in shorter : Len(q) = n - 1}, x \in S}

----------------------------------------------------------------------------
(* Commands: a command is the list command.split() of its tokens; a token  *)
(* is the sequence of the pieces the f-string concatenates.                *)

\* the channels queried in the opposite order
Channels_NightlyFirst == <<"nightly", "stable">>

\* line 31
Channels == <<"stable", "nightly">>

\* a listing command that ignores the channel of the loop
ListCommand_AlwaysStable(channel) == << <<"rustup">>, <<"+", "stable">>, <<"target">>, <<"list">> >>

\* f"rustup +{channel} target list", line 33
ListCommand(channel) == << <<"rustup">>, <<"+", channel>>, <<"target">>, <<"list">> >>

\* f"cargo +{channel} check --target={triple}", line 54
CargoCheckCommand(channel, triple) ==
    << <<"cargo">>, <<"+", channel>>, <<"check">>, <<"--target=", triple>> >>

\* an install command that always names the "stable" channel
RustupTargetInstallCommand_Stable(channel, triple) ==
    << <<"rustup">>, <<"+", "stable">>, <<"target">>, <<"install">>, <<triple>> >>

\* f"rustup +{channel} target install {triple}", line 59
RustupTargetInstallCommand(channel, triple) ==
    << <<"rustup">>, <<"+", channel>>, <<"target">>, <<"install">>, <<triple>> >>

\* a no-default-features check that selects the channel of the linux entry
NoDefaultFeaturesCommand_WithChannel(triple) ==
    << <<"cargo">>, <<"+", "stable">>, <<"check">>, <<"--target=", triple>>, <<"--no-default-features">> >>

\* f"cargo check --target={triple} --no-default-features", lines 74 and 92
NoDefaultFeaturesCommand(triple) ==
    << <<"cargo">>, <<"check">>, <<"--target=", triple>>, <<"--no-default-features">> >>

blue(s) == [prefix |-> "\\033[94m", body |-> s, suffix |-> "\\033[0m"]

----------------------------------------------------------------------------
(* The listing output of rustup: completed.stdout.splitlines(), a line     *)
(* being the sequence of its words and of the blanks " " between them (two *)
(* words are never adjacent: they would be one word).                      *)

\* line 39: line.split(), the words of a line without the blanks
Split(line) == SelectSeq(line, LAMBDA x : x # " ")

\* the outputs `rustup +channel target list` answers with
Stdouts ==
    { <<>>,
      << <<"x86_64-unknown-linux-gnu", " ", "(installed)">>,
         <<"x86_64-unknown-linux-musl", " ", "(installed)">> >>,
      << <<"x86_64-unknown-linux-gnu", " ", "(installed)">>,
         <<"x86_64-unknown-linux-musl">>,
         <<"x86_64-unknown-redox", " ", "(installed)", " ", "extra">> >>,
      << <<"x86_64-unknown-redox", " ", "(installed)">>,
         <<"x86_64-unknown-linux-gnu", " ", "(default)">>,
         <<"x86_64-unknown-linux-musl", " ", "(installed)">> >> }

\* a test that accepts a line with more than two words
MarkedInstalled_AtLeastTwo(split) == Len(split) >= 2 /\ split[2] = "(installed)"

\* line 40: len(split) == 2 and split[1].decode("utf-8") == "(installed)"
MarkedInstalled(split) == Len(split) = 2 /\ split[2] = "(installed)"

\* lines 38-42: the loop over the lines, adding to the set of the channel
RECURSIVE AddInstalled(_, _)
AddInstalled(set, lines) ==
    IF lines = <<>> THEN set
    ELSE LET split == Split(Head(lines)) IN
         AddInstalled(IF MarkedInstalled(split) THEN set \cup {split[1]} ELSE set, Tail(lines))

\* lines 32 and 38-42: the set a listing output gives installed[channel]
ParseInstalled(stdout) == AddInstalled({}, stdout)

NoCompleted == [returncode |-> 0, stdout |-> <<>>, stderr |-> <<>>]

\* sys.exit(1), lines 37, 50 and 82
ExitFailure == 1

----------------------------------------------------------------------------
Init ==
    /\ sys_platform \in Platforms
    /\ args \in SeqsUpTo(ArgNames, MaxArgs)
    /\ pc = "get_installed_targets"
    /\ channel_i = 1
    /\ completed = NoCompleted
    /\ installed = [c \in {} |-> {}]
    /\ os_i = 0
    /\ t_i = 0
    /\ command = <<>>
    /\ caller = ""
    /\ out = <<>>
    /\ cmds = <<>>
    /\ exit_code = NoExit

\* one iteration of the loop of lines 31-42, the listing answering with one of outs
GetInstalledTargets(outs) ==
    /\ pc = "get_installed_targets"
    /\ channel_i <= Len(Channels)
    /\ LET channel == Channels[channel_i] IN
       \E rc \in RetCodes :
       \E stdout \in outs :
          /\ completed' = [returncode |-> rc,
                           stdout |-> IF rc = 0 THEN stdout ELSE <<>>,
                           stderr |-> IF rc = 0 THEN <<>> ELSE <<"error">>]
          /\ rc # 0 => stdout = <<>>
          /\ cmds' = Append(cmds, [command |-> ListCommand(channel), returncode |-> rc])
          /\ IF rc # 0
             THEN /\ out' = Append(out, [kind |-> "stderr", text |-> completed'.stderr])
                  /\ installed' = (channel :> {}) @@ installed
                  /\ exit_code' = ExitFailure
                  /\ pc' = "exit"
                  /\ UNCHANGED channel_i
             ELSE /\ installed' = (channel :> ParseInstalled(stdout)) @@ installed
                  /\ channel_i' = channel_i + 1
                  /\ pc' = IF channel_i = Len(Channels) THEN "return_installed"
                           ELSE "get_installed_targets"
                  /\ UNCHANGED <<out, exit_code>>
    /\ UNCHANGED <<sys_platform, args, os_i, t_i, command, caller>>

get_installed_targets == GetInstalledTargets(Stdouts)

\* line 43 and line 64: the snapshot is returned to main; `completed` goes out of scope
return_installed ==
    /\ pc = "return_installed"
    /\ completed' = NoCompleted
    /\ pc' = "for_os"
    /\ UNCHANGED <<sys_platform, args, channel_i, installed, os_i, t_i, command, caller,
                   out, cmds, exit_code>>

\* main returns: the interpreter exits with status 0
MainReturns ==
    /\ pc' = "exit"
    /\ exit_code' = 0

\* a loop over the catalog that leaves for the no-default-features pass once the linux
\* entry is done
for_os_all_PassAfterLinux ==
    /\ pc = "for_os"
    /\ Len(args) = 0
    /\ IF os_i < Len(OSS(sys_platform)) /\ ~(os_i >= 1 /\ OSS(sys_platform)[os_i].os = "linux")
       THEN /\ os_i' = os_i + 1
            /\ t_i' = 0
            /\ pc' = "for_t"
       ELSE /\ t_i' = 0
            /\ pc' = "for_triple"
            /\ UNCHANGED os_i
    /\ UNCHANGED <<sys_platform, args, channel_i, completed, installed, command, caller,
                   out, cmds, exit_code>>

\* line 66: head of `for (channel, ts) in OSS.values()`, taken when len(sys.argv) == 1
for_os_all ==
    /\ pc = "for_os"
    /\ Len(args) = 0
    /\ IF os_i < Len(OSS(sys_platform))
       THEN /\ os_i' = os_i + 1
            /\ t_i' = 0
            /\ pc' = "for_t"
       ELSE \* line 72: linux_triples = OSS["linux"][1]
            /\ t_i' = 0
            /\ pc' = "for_triple"
            /\ UNCHANGED os_i
    /\ UNCHANGED <<sys_platform, args, channel_i, completed, installed, command, caller,
                   out, cmds, exit_code>>

\* the test made on every argument instead of the first
LinuxRequested_AnyArgument(argv) == \E k \in 1..Len(argv) : StrIn("linux", argv[k])

\* line 88: "linux" in sys.argv[1]
LinuxRequested(argv) == StrIn("linux", argv[1])

\* lines 77-83 and 88: head of `for os in sys.argv[1:]`
for_os_args ==
    /\ pc = "for_os"
    /\ Len(args) > 0
    /\ IF os_i < Len(args)
       THEN LET os == args[os_i + 1]
                value == OSSGet(OSS(sys_platform), os)
            IN /\ os_i' = os_i + 1
               /\ t_i' = 0
               /\ IF value = None
                  THEN /\ out' = Append(out, [kind |-> "unrecognized", os |-> os,
                                              available |-> Keys(OSS(sys_platform))])
                       /\ exit_code' = ExitFailure
                       /\ pc' = "exit"
                  ELSE /\ pc' = "for_t"
                       /\ UNCHANGED <<out, exit_code>>
       ELSE /\ IF LinuxRequested(args)
               THEN /\ pc' = "for_triple"
                    /\ t_i' = 0
                    /\ UNCHANGED exit_code
               ELSE /\ MainReturns
                    /\ UNCHANGED t_i
            /\ UNCHANGED <<os_i, out>>
    /\ UNCHANGED <<sys_platform, args, channel_i, completed, installed, command, caller, cmds>>

\* the catalog walked from its last entry in a no-argument run
Value_CatalogReversed ==
    IF Len(args) = 0 THEN OSS(sys_platform)[Len(OSS(sys_platform)) - os_i + 1]
    ELSE OSSGet(OSS(sys_platform), args[os_i])

\* the arguments walked from the last one
Value_ArgsReversed ==
    IF Len(args) = 0 THEN OSS(sys_platform)[os_i]
    ELSE OSSGet(OSS(sys_platform), args[Len(args) - os_i + 1])

\* the (channel, ts) pair main is working on
Value == IF Len(args) = 0 THEN OSS(sys_platform)[os_i]
         ELSE OSSGet(OSS(sys_platform), args[os_i])

\* the membership test made against the set of "stable" whatever the platform's channel
NotInstalled_StableOnly(inst, channel, t) == t \notin inst["stable"]

\* a test that never asks for an install
NotInstalled_Never(inst, channel, t) == FALSE

\* lines 68 and 85: `t not in installed[channel]`
NotInstalled(inst, channel, t) == t \notin inst[channel]

\* head of `for t in ts` and the install decision
ForT ==
    /\ pc = "for_t"
    /\ IF t_i < Len(Value.ts)
       THEN LET t == Value.ts[t_i + 1] IN
            /\ t_i' = t_i + 1
            /\ IF NotInstalled(installed, Value.channel, t)
               THEN \* run_rustup_target_install(channel, t), lines 58-60
                    /\ command' = RustupTargetInstallCommand(Value.channel, t)
                    /\ caller' = "run_rustup_target_install"
                    /\ pc' = "run_command"
               ELSE /\ pc' = "run_cargo_check"
                    /\ UNCHANGED <<command, caller>>
       ELSE /\ pc' = "for_os"
            /\ UNCHANGED <<t_i, command, caller>>
    /\ UNCHANGED <<sys_platform, args, channel_i, completed, installed, os_i,
                   out, cmds, exit_code>>

\* lines 67-69
for_t_all == Len(args) = 0 /\ ForT

\* lines 84-86
for_t_args == Len(args) > 0 /\ ForT

\* lines 70 and 87 with lines 53-55: run_cargo_check(channel, t) up to its call of run_command
run_cargo_check ==
    /\ pc = "run_cargo_check"
    /\ command' = CargoCheckCommand(Value.channel, Value.ts[t_i])
    /\ caller' = "run_cargo_check"
    /\ pc' = "run_command"
    /\ UNCHANGED <<sys_platform, args, channel_i, completed, installed, os_i, t_i,
                   out, cmds, exit_code>>

\* run_command without its print
run_command_NoEcho ==
    /\ pc = "run_command"
    /\ pc' = "subprocess_run"
    /\ UNCHANGED <<sys_platform, args, channel_i, completed, installed, os_i, t_i,
                   command, caller, out, cmds, exit_code>>

\* line 47: print(blue(command))
run_command ==
    /\ pc = "run_command"
    /\ out' = Append(out, [kind |-> "command", text |-> blue(command)])
    /\ pc' = "subprocess_run"
    /\ UNCHANGED <<sys_platform, args, channel_i, completed, installed, os_i, t_i,
                   command, caller, cmds, exit_code>>

\* a run_command that never gives control back to its caller
ReturnTo_NoReturn(c) == "subprocess_run_pending"

\* where run_command's caller continues
ReturnTo(c) ==
    CASE c = "run_rustup_target_install" -> "run_cargo_check"
      [] c = "run_cargo_check" -> "for_t"
      [] c = "main" -> "for_triple"

\* the return code of the failing command passed on as exit status
FailStatus_Propagates(rc) == rc

\* the exit status after an external command returned rc # 0, line 50
FailStatus(rc) == ExitFailure

\* run_command without the test of the return code
subprocess_run_IgnoresFailure ==
    /\ pc = "subprocess_run"
    /\ \E rc \in RetCodes :
          /\ cmds' = Append(cmds, [command |-> command, returncode |-> rc])
          /\ pc' = ReturnTo(caller)
          /\ UNCHANGED exit_code
    /\ UNCHANGED <<sys_platform, args, channel_i, completed, installed, os_i, t_i,
                   command, caller, out>>

\* run_command followed by an update of the snapshot after a successful install
subprocess_run_UpdatesSnapshot ==
    /\ pc = "subprocess_run"
    /\ \E rc \in RetCodes :
          /\ cmds' = Append(cmds, [command |-> command, returncode |-> rc])
          /\ IF rc # 0
             THEN /\ exit_code' = FailStatus(rc)
                  /\ pc' = "exit"
                  /\ UNCHANGED installed
             ELSE /\ pc' = ReturnTo(caller)
                  /\ installed' = IF caller = "run_rustup_target_install"
                                  THEN [installed EXCEPT ![Value.channel] = @ \cup {Value.ts[t_i]}]
                                  ELSE installed
                  /\ UNCHANGED exit_code
    /\ UNCHANGED <<sys_platform, args, channel_i, completed, os_i, t_i, command, caller, out>>

\* lines 48-50: subprocess.run(command.split()) and the test of its return code
subprocess_run ==
    /\ pc = "subprocess_run"
    /\ \E rc \in RetCodes :
          /\ cmds' = Append(cmds, [command |-> command, returncode |-> rc])
          /\ IF rc # 0
             THEN /\ exit_code' = FailStatus(rc)
                  /\ pc' = "exit"
             ELSE /\ pc' = ReturnTo(caller)
                  /\ UNCHANGED exit_code
    /\ UNCHANGED <<sys_platform, args, channel_i, completed, installed, os_i, t_i,
                   command, caller, out>>

\* OSS["linux"][1], lines 72 and 90
linux_triples == OSSGet(OSS(sys_platform), "linux").ts

\* lines 73-75 and 91-93: head of `for triple in linux_triples` and its body up to run_command
for_triple ==
    /\ pc = "for_triple"
    /\ IF t_i < Len(linux_triples)
       THEN /\ t_i' = t_i + 1
            /\ command' = NoDefaultFeaturesCommand(linux_triples[t_i + 1])
            /\ caller' = "main"
            /\ pc' = "run_command"
            /\ UNCHANGED exit_code
       ELSE /\ MainReturns
            /\ UNCHANGED <<t_i, command, caller>>
    /\ UNCHANGED <<sys_platform, args, channel_i, completed, installed, os_i, out, cmds>>

Next ==
    \/ get_installed_targets
    \/ return_installed
    \/ for_os_all
    \/ for_os_args
    \/ for_t_all
    \/ for_t_args
    \/ run_cargo_check
    \/ run_command
    \/ subprocess_run
    \/ for_triple

Spec == Init /\ [][Next]_vars

----------------------------------------------------------------------------
TypeOK ==
    /\ pc \in {"get_installed_targets", "return_installed", "for_os", "for_t",
               "run_cargo_check", "run_command", "subprocess_run", "for_triple", "exit"}
    /\ exit_code \in {NoExit, 0, ExitFailure}
    /\ (pc = "exit") <=> (exit_code # NoExit)

----------------------------------------------------------------------------
(* Observations of a run, read off the executed commands *)

HasToken(c, tok) == \E k \in 1..Len(c) : c[k] = tok

IsListing(c) == c[1] = <<"rustup">> /\ HasToken(c, <<"list">>)
IsInstall(c) == c[1] = <<"rustup">> /\ HasToken(c, <<"install">>)
IsNoDefault(c) == c[1] = <<"cargo">> /\ HasToken(c, <<"--no-default-features">>)
IsCheck(c) == c[1] = <<"cargo">> /\ HasToken(c, <<"check">>) /\ ~IsNoDefault(c)

NoChannel == ""

\* the channel selector "+channel" of a command, NoChannel when it has none
ChannelOf(c) ==
    LET sel == {k \in 1..Len(c) : Len(c[k]) = 2 /\ c[k][1] = "+"}
    IN IF sel = {} THEN NoChannel ELSE c[CHOOSE k \in sel : TRUE][2]

\* the target triple a check or install command names
TripleOf(c) ==
    IF IsInstall(c) THEN c[Len(c)][1]
    ELSE c[CHOOSE k \in 1..Len(c) : c[k][1] = "--target="][2]

PairOf(c) == <<ChannelOf(c), TripleOf(c)>>

LogIsCheck(e) == IsCheck(e.command)
LogIsInstall(e) == IsInstall(e.command)
LogIsNoDefault(e) == IsNoDefault(e.command)
LogIsListing(e) == IsListing(e.command)
LogIsWork(e) == ~IsListing(e.command)

PairsOf(log) == [k \in 1..Len(log) |-> PairOf(log[k].command)]

\* the (channel, triple) pairs of the normal checks, in the order issued
CheckPairs == PairsOf(SelectSeq(cmds, LogIsCheck))

\* the triples of the no-default-features checks, in the order issued
NoDefaultTriples ==
    LET l == SelectSeq(cmds, LogIsNoDefault) IN [k \in 1..Len(l) |-> TripleOf(l[k].command)]

RECURSIVE ExpectedPairs(_)
ExpectedPairs(entries) ==
    IF entries = <<>> THEN <<>>
    ELSE [k \in 1..Len(Head(entries).ts) |-> <<Head(entries).channel, Head(entries).ts[k]>>]
         \o ExpectedPairs(Tail(entries))

IsPrefix(s, t) == Len(s) <= Len(t) /\ SubSeq(t, 1, Len(s)) = s

Catalog == OSS(sys_platform)

Unknown(os) == os \notin KeySet(Catalog)
HasUnknown == \E k \in 1..Len(args) : Unknown(args[k])

\* index of the first argument that is not a catalog key, Len(args) + 1 when all are
FirstUnknown ==
    IF HasUnknown THEN CHOOSE k \in 1..Len(args) :
                          Unknown(args[k]) /\ \A m \in 1..(k - 1) : ~Unknown(args[m])
    ELSE Len(args) + 1

\* the catalog entries of the arguments before the first unknown one
EntriesBeforeUnknown == [k \in 1..(FirstUnknown - 1) |-> OSSGet(Catalog, args[k])]

Done == pc = "exit"
AllSucceeded == \A k \in 1..Len(cmds) : cmds[k].returncode = 0
UnrecognizedPrinted == \E k \in 1..Len(out) : out[k].kind = "unrecognized"

\* every install is directly followed by the normal check of the same channel and triple,
\* unless it is the last command
InstallThenCheck ==
    \A k \in 1..Len(cmds) :
        (IsInstall(cmds[k].command) /\ k < Len(cmds)) =>
            /\ IsCheck(cmds[k + 1].command)
            /\ PairOf(cmds[k + 1].command) = PairOf(cmds[k].command)

----------------------------------------------------------------------------
\* C1 as stated: a run whose argument list contains an unknown name, at any position,
\* ends with non-zero status and has issued no install and no check command.
C1_Original ==
    (Done /\ HasUnknown) =>
        /\ exit_code # 0
        /\ \A k \in 1..Len(cmds) : IsListing(cmds[k].command)

\* C1 amended: a run whose argument list contains an unknown name ends with non-zero
\* status; the normal checks it has issued are a prefix of the checks of the arguments that
\* precede the first unknown name (none when the unknown name comes first), every install
\* belongs to such a check, and no no-default-features check has been issued.
C1_UnknownNameStopsAtIt ==
    (Done /\ HasUnknown) =>
        LET expected == ExpectedPairs(EntriesBeforeUnknown) IN
        /\ exit_code # 0
        /\ IsPrefix(CheckPairs, expected)
        /\ InstallThenCheck
        /\ \A k \in 1..Len(cmds) :
              /\ ~IsNoDefault(cmds[k].command)
              /\ IsInstall(cmds[k].command) =>
                    \E m \in 1..Len(expected) : expected[m] = PairOf(cmds[k].command)
        /\ FirstUnknown = 1 => \A k \in 1..Len(cmds) : IsListing(cmds[k].command)

\* an unknown name after a valid one: the valid one's commands ran, then the run stopped
C1_Witness ==
    /\ Done
    /\ UnrecognizedPrinted
    /\ FirstUnknown = 2
    /\ \E k \in 1..Len(cmds) : IsInstall(cmds[k].command)
    /\ Len(CheckPairs) > 0

----------------------------------------------------------------------------
\* C2 as stated: when a run with an unknown name exits, no external process at all has
\* been invoked, not even the listing query.
C2_Original ==
    (Done /\ UnrecognizedPrinted) => (exit_code # 0 /\ cmds = <<>>)

\* C2 amended: the unknown name is detected after get_installed_targets: when the run
\* exits on an unknown name, the listing query of "stable" and then of "nightly" have been
\* invoked and returned 0, no other listing was made, and when the unknown name is the
\* first argument these two are the only external processes invoked.
C2_UnknownDetectedAfterListing ==
    (Done /\ UnrecognizedPrinted) =>
        /\ exit_code # 0
        /\ Len(cmds) >= 2
        /\ cmds[1] = [command |-> << <<"rustup">>, <<"+", "stable">>, <<"target">>, <<"list">> >>,
                      returncode |-> 0]
        /\ cmds[2] = [command |-> << <<"rustup">>, <<"+", "nightly">>, <<"target">>, <<"list">> >>,
                      returncode |-> 0]
        /\ \A k \in 3..Len(cmds) : ~IsListing(cmds[k].command)
        /\ FirstUnknown = 1 => Len(cmds) = 2

C2_Witness ==
    /\ Done
    /\ UnrecognizedPrinted
    /\ FirstUnknown = 1
    /\ Len(cmds) = 2

----------------------------------------------------------------------------
\* C3: in a no-argument run in which every external command succeeds, the normal checks
\* are exactly the catalog's (channel, triple) pairs, platform by platform in declaration
\* order and triple by triple in declared order, each once, and an install comes directly
\* before the check of its triple.
C3_FullRunChecksCatalogInOrder ==
    (Done /\ Len(args) = 0 /\ AllSucceeded) =>
        /\ CheckPairs = ExpectedPairs(Catalog)
        /\ InstallThenCheck
        /\ \A k \in 1..Len(cmds) : IsInstall(cmds[k].command) => k < Len(cmds)

C3_Witness ==
    /\ Done
    /\ Len(args) = 0
    /\ AllSucceeded
    /\ exit_code = 0
    /\ sys_platform = "darwin"
    /\ Len(CheckPairs) = 13
    /\ \E k \in 1..Len(cmds) : IsInstall(cmds[k].command)

----------------------------------------------------------------------------
LinuxEntry == OSSGet(Catalog, "linux")

\* "linux" is among the selected platforms
LinuxSelected == Len(args) = 0 \/ \E k \in 1..Len(args) : args[k] = "linux"

\* the catalog entries of the selected platforms, in the order main visits them
SelectedEntries == IF Len(args) = 0 THEN Catalog ELSE EntriesBeforeUnknown

\* position in cmds of the first no-default-features check, Len(cmds) + 1 when there is none
FirstNoDefault ==
    IF \E k \in 1..Len(cmds) : IsNoDefault(cmds[k].command)
    THEN CHOOSE k \in 1..Len(cmds) :
            /\ IsNoDefault(cmds[k].command)
            /\ \A m \in 1..(k - 1) : ~IsNoDefault(cmds[m].command)
    ELSE Len(cmds) + 1

\* C4 as stated: in a run where all external commands succeed, the no-default-features
\* check is issued exactly once for each linux triple if "linux" is among the selected
\* platforms (at any position of the argument list), after all normal checks of linux,
\* and never when "linux" is not selected nor for a triple of another platform.
C4_Claim ==
    (Done /\ exit_code = 0) =>
        /\ NoDefaultTriples = (IF LinuxSelected THEN LinuxEntry.ts ELSE <<>>)
        /\ \A k \in 1..Len(cmds) :
              (IsCheck(cmds[k].command) /\ ChannelOf(cmds[k].command) = LinuxEntry.channel
                 /\ \E m \in 1..Len(LinuxEntry.ts) : LinuxEntry.ts[m] = TripleOf(cmds[k].command))
              => k < FirstNoDefault

----------------------------------------------------------------------------
\* get_installed_targets has filled the set of every channel
SnapshotTaken == \A n \in 1..Len(Channels) : Channels[n] \in DOMAIN installed

\* C5: an install command is issued for a processed (channel, triple) exactly when the
\* triple is not in installed[channel] of the platform's own channel: every install names
\* a pair of a selected platform whose triple is missing from that channel's set, and a
\* normal check is directly preceded by the successful install of its pair exactly when
\* its triple is missing; so a run whose selected triples are all installed issues no install.
C5_InstallIffNotInSnapshot ==
    LET expected == ExpectedPairs(SelectedEntries) IN
    /\ \A k \in 1..Len(cmds) :
          IsInstall(cmds[k].command) =>
             /\ TripleOf(cmds[k].command) \notin installed[ChannelOf(cmds[k].command)]
             /\ \E m \in 1..Len(expected) : expected[m] = PairOf(cmds[k].command)
    /\ \A k \in 1..Len(cmds) :
          IsCheck(cmds[k].command) =>
             ( TripleOf(cmds[k].command) \notin installed[ChannelOf(cmds[k].command)]
               <=> /\ k > 1
                   /\ IsInstall(cmds[k - 1].command)
                   /\ PairOf(cmds[k - 1].command) = PairOf(cmds[k].command)
                   /\ cmds[k - 1].returncode = 0 )
    /\ ( /\ SnapshotTaken
          /\ \A m \in 1..Len(expected) : expected[m][2] \in installed[expected[m][1]] )
       => \A k \in 1..Len(cmds) : ~IsInstall(cmds[k].command)

\* a finished run that installed one triple and checked another without installing it,
\* the redox triple being listed as installed for "stable" but not for "nightly"
C5_Witness ==
    /\ Done
    /\ exit_code = 0
    /\ "x86_64-unknown-redox" \in installed["stable"]
    /\ \E k \in 1..Len(cmds) :
          IsInstall(cmds[k].command) /\ TripleOf(cmds[k].command) = "x86_64-unknown-redox"
    /\ \E k \in 2..Len(cmds) : IsCheck(cmds[k].command) /\ ~IsInstall(cmds[k - 1].command)

----------------------------------------------------------------------------
\* C6: a check command that returns non-zero is the last external command of the run:
\* no install or check follows it for a later triple or a later platform, no
\* no-default-features check has been issued when a normal check failed, and the run
\* has exited with non-zero status.
C6_FailingCheckAborts ==
    \A k \in 1..Len(cmds) :
        ((IsCheck(cmds[k].command) \/ IsNoDefault(cmds[k].command)) /\ cmds[k].returncode # 0) =>
            /\ k = Len(cmds)
            /\ Done
            /\ exit_code # 0
            /\ IsCheck(cmds[k].command) => \A m \in 1..Len(cmds) : ~IsNoDefault(cmds[m].command)

\* the first linux check failed in a no-argument run: android and freebsd were checked
C6_Witness ==
    /\ Len(args) = 0
    /\ Len(cmds) > 3
    /\ IsCheck(cmds[Len(cmds)].command)
    /\ cmds[Len(cmds)].returncode # 0
    /\ TripleOf(cmds[Len(cmds)].command) = "x86_64-unknown-linux-gnu"
    /\ Done

----------------------------------------------------------------------------
FirstFailing == CHOOSE k \in 1..Len(cmds) :
                   cmds[k].returncode # 0 /\ \A m \in 1..(k - 1) : cmds[m].returncode = 0

\* exit status 0 exactly when all arguments are catalog keys and every command returned 0
ZeroIffAllGood == (exit_code = 0) <=> (~HasUnknown /\ AllSucceeded)

\* C7 as stated: exit code 0 exactly when all arguments are catalog keys and every issued
\* command returned 0; when a command fails the exit code equals the return code of the
\* first failing command; for an unknown name the exit code is 1.
C7_Original ==
    Done =>
        /\ ZeroIffAllGood
        /\ ~AllSucceeded => exit_code = cmds[FirstFailing].returncode
        /\ UnrecognizedPrinted => exit_code = 1

\* C7 amended: exit code 0 exactly when all arguments are catalog keys and every issued
\* command returned 0; when a listing, install or check command fails the exit code is 1,
\* whatever the return code of that command; for an unknown name the exit code is 1.
C7_ExitCodeIsOneOnFailure ==
    Done =>
        /\ ZeroIffAllGood
        /\ ~AllSucceeded => exit_code = 1
        /\ UnrecognizedPrinted => exit_code = 1

\* a check returned 2 and the process exited with 1
C7_Witness ==
    /\ Done
    /\ Len(cmds) > 2
    /\ cmds[Len(cmds)].returncode = 2
    /\ IsCheck(cmds[Len(cmds)].command)
    /\ exit_code = 1

----------------------------------------------------------------------------
\* the scenario of C8: the single argument "linux", both linux triples in the snapshot of
\* "stable", the run finished and every external command returned 0
C8_Scenario ==
    /\ Done
    /\ args = <<"linux">>
    /\ AllSucceeded
    /\ \A m \in 1..Len(LinuxEntry.ts) : LinuxEntry.ts[m] \in installed["stable"]

WorkCmds == SelectSeq(cmds, LogIsWork)

C8_Shape ==
    /\ Len(WorkCmds) = 4
    /\ \A k \in 1..2 : IsCheck(WorkCmds[k].command)
    /\ \A k \in 3..4 : IsNoDefault(WorkCmds[k].command)
    /\ [k \in 1..4 |-> TripleOf(WorkCmds[k].command)]
          = <<"x86_64-unknown-linux-gnu", "x86_64-unknown-linux-musl",
              "x86_64-unknown-linux-gnu", "x86_64-unknown-linux-musl">>
    /\ exit_code = 0

\* C8 as stated: the scenario issues exactly 2 normal checks then 2 no-default-features
\* checks in declared triple order, no install, all four for channel "stable", and exits 0.
C8_Original ==
    C8_Scenario =>
        /\ C8_Shape
        /\ \A k \in 1..Len(WorkCmds) : ChannelOf(WorkCmds[k].command) = "stable"

\* C8 amended: the scenario issues exactly 2 normal checks then 2 no-default-features
\* checks in declared triple order, no install, and exits 0; the 2 normal checks are issued
\* for channel "stable" and the 2 no-default-features checks carry no channel selector.
C8_LinuxScenario ==
    C8_Scenario =>
        /\ C8_Shape
        /\ \A k \in 1..2 : ChannelOf(WorkCmds[k].command) = "stable"
        /\ \A k \in 3..4 : ChannelOf(WorkCmds[k].command) = NoChannel

C8_Witness == C8_Scenario /\ Len(WorkCmds) = 4 /\ Len(NoDefaultTriples) = 2

----------------------------------------------------------------------------
\* position of a platform in the catalog
CatalogIndex(os) == CHOOSE k \in 1..Len(Catalog) : Catalog[k].os = os

\* the platform a triple belongs to
PlatformOf(triple) ==
    CHOOSE k \in 1..Len(Catalog) : \E m \in 1..Len(Catalog[k].ts) : Catalog[k].ts[m] = triple

NormalCmds == SelectSeq(cmds, LAMBDA e : IsCheck(e.command) \/ IsInstall(e.command))

\* C9 as stated: in every run, also with explicit arguments in any order, the install and
\* check commands of a platform declared earlier in the catalog all come before those of a
\* platform declared later.
C9_Original ==
    \A k \in 1..Len(NormalCmds) : \A m \in (k + 1)..Len(NormalCmds) :
        PlatformOf(TripleOf(NormalCmds[k].command)) <= PlatformOf(TripleOf(NormalCmds[m].command))

\* C9 amended: in a no-argument run the platforms are processed in catalog declaration
\* order; in a run with explicit arguments the named platforms are processed in the order
\* of the arguments, a platform named twice being processed twice; triples within a
\* platform are processed in declared list order.
C9_ProcessedInSelectionOrder ==
    /\ IsPrefix(CheckPairs, ExpectedPairs(SelectedEntries))
    /\ InstallThenCheck
    /\ (Done /\ exit_code = 0) => CheckPairs = ExpectedPairs(SelectedEntries)

\* macos named before linux: macos is checked first
C9_Witness ==
    /\ Done
    /\ exit_code = 0
    /\ args = <<"macos", "linux">>
    /\ Len(CheckPairs) = 3
    /\ CheckPairs[1][2] = "x86_64-apple-darwin"

----------------------------------------------------------------------------
\* C10: when a run ends with exit code 0, every triple of every selected platform has had
\* a check with the platform's channel return 0, and was in installed[channel] or had an
\* install for that channel and triple return 0.
C10_SuccessMeansAllChecked ==
    (Done /\ exit_code = 0) =>
        \A n \in 1..Len(SelectedEntries) : \A j \in 1..Len(SelectedEntries[n].ts) :
            LET pair == <<SelectedEntries[n].channel, SelectedEntries[n].ts[j]>> IN
            /\ \E k \in 1..Len(cmds) :
                  /\ IsCheck(cmds[k].command)
                  /\ PairOf(cmds[k].command) = pair
                  /\ cmds[k].returncode = 0
            /\ \/ pair[2] \in installed[pair[1]]
               \/ \E k \in 1..Len(cmds) :
                     /\ IsInstall(cmds[k].command)
                     /\ PairOf(cmds[k].command) = pair
                     /\ cmds[k].returncode = 0

C10_Witness ==
    /\ Done
    /\ exit_code = 0
    /\ args = <<"redox", "linux">>
    /\ "x86_64-unknown-linux-gnu" \in installed["stable"]
    /\ "x86_64-unknown-redox" \notin installed["nightly"]

----------------------------------------------------------------------------
\* C11: a normal check for (channel, triple) is issued only when the triple is in
\* installed[channel] or an install for that channel and triple was issued earlier in the
\* run and returned 0; an install that returns non-zero is the last external command of
\* the run, which has exited with non-zero status.
C11_CheckOnlyWhenInstalled ==
    /\ \A k \in 1..Len(cmds) :
          IsCheck(cmds[k].command) =>
             \/ TripleOf(cmds[k].command) \in installed[ChannelOf(cmds[k].command)]
             \/ \E m \in 1..(k - 1) :
                   /\ IsInstall(cmds[m].command)
                   /\ PairOf(cmds[m].command) = PairOf(cmds[k].command)
                   /\ cmds[m].returncode = 0
    /\ \A k \in 1..Len(cmds) :
          (IsInstall(cmds[k].command) /\ cmds[k].returncode # 0) =>
             /\ k = Len(cmds)
             /\ Done
             /\ exit_code # 0

\* the install of the second linux triple failed after the first one was installed and checked
C11_Witness ==
    /\ Done
    /\ Len(cmds) = 5
    /\ IsInstall(cmds[3].command) /\ cmds[3].returncode = 0
    /\ IsCheck(cmds[4].command)
    /\ IsInstall(cmds[5].command) /\ cmds[5].returncode # 0
    /\ TripleOf(cmds[5].command) = "x86_64-unknown-linux-musl"

----------------------------------------------------------------------------
ListingCmds == SelectSeq(cmds, LogIsListing)

\* C12: the listing queries are issued for "stable" and then "nightly"; a listing that
\* returns non-zero is the last external command of the run: the other channel is not
\* queried after it, no install or check is issued, and the run has exited non-zero.
C12_ListingFailureAborts ==
    /\ IsPrefix([k \in 1..Len(ListingCmds) |-> ChannelOf(ListingCmds[k].command)],
                <<"stable", "nightly">>)
    /\ \A k \in 1..Len(cmds) : IsListing(cmds[k].command) => k <= 2
    /\ \A k \in 1..Len(cmds) :
          (IsListing(cmds[k].command) /\ cmds[k].returncode # 0) =>
             /\ k = Len(cmds)
             /\ Done
             /\ exit_code # 0
             /\ \A m \in 1..Len(cmds) : IsListing(cmds[m].command)

\* the listing of "stable" failed in a run with arguments: "nightly" was never queried
C12_Witness ==
    /\ Done
    /\ Len(args) > 0
    /\ Len(cmds) = 1
    /\ ChannelOf(cmds[1].command) = "stable"
    /\ cmds[1].returncode # 0
    /\ exit_code # 0

----------------------------------------------------------------------------
\* C13 as stated: in a no-argument run the no-default-features checks come directly after
\* the normal checks of linux, before the first command of the platform that follows linux
\* in the catalog.
C13_Original ==
    Len(args) = 0 =>
        \A k \in 1..Len(cmds) : \A m \in 1..(k - 1) :
            (IsNoDefault(cmds[k].command)
               /\ (IsCheck(cmds[m].command) \/ IsInstall(cmds[m].command)))
            => PlatformOf(TripleOf(cmds[m].command)) <= CatalogIndex("linux")

\* C13 amended: in a no-argument run the no-default-features checks of the linux triples
\* are issued only after the normal checks of every catalog platform, those declared after
\* linux included, have been issued and returned 0; so a failing install or check of a
\* platform declared after linux prevents the linux no-default-features pass.
C13_PassAfterWholeCatalog ==
    (Len(args) = 0 /\ FirstNoDefault <= Len(cmds)) =>
        /\ PairsOf(SelectSeq(SubSeq(cmds, 1, FirstNoDefault - 1), LogIsCheck))
              = ExpectedPairs(Catalog)
        /\ \A m \in 1..(FirstNoDefault - 1) : cmds[m].returncode = 0
        /\ \A m \in FirstNoDefault..Len(cmds) : IsNoDefault(cmds[m].command)
        /\ IsPrefix(NoDefaultTriples, LinuxEntry.ts)

\* a finished no-argument run with both no-default-features checks issued
C13_Witness ==
    /\ Done
    /\ Len(args) = 0
    /\ exit_code = 0
    /\ Len(NoDefaultTriples) = 2
    /\ IsCheck(cmds[FirstNoDefault - 1].command)
    /\ PlatformOf(TripleOf(cmds[FirstNoDefault - 1].command)) > CatalogIndex("linux")

----------------------------------------------------------------------------
\* C14: in a run with explicit arguments where all commands succeed, the
\* no-default-features pass is issued exactly when the first argument contains "linux",
\* which for an all-valid argument list means the first argument is "linux": linux macos
\* triggers the pass, macos linux does not; the pass comes after the normal checks of
\* every named platform.
C14_PassIffFirstArgumentIsLinux ==
    (Done /\ exit_code = 0 /\ Len(args) > 0) =>
        /\ StrIn("linux", args[1]) <=> args[1] = "linux"
        /\ NoDefaultTriples = (IF args[1] = "linux" THEN LinuxEntry.ts ELSE <<>>)
        /\ args = <<"linux", "macos">> => Len(NoDefaultTriples) = 2
        /\ args = <<"macos", "linux">> => Len(NoDefaultTriples) = 0
        /\ PairsOf(SelectSeq(SubSeq(cmds, 1, FirstNoDefault - 1), LogIsCheck))
              = ExpectedPairs(SelectedEntries)
        /\ \A m \in FirstNoDefault..Len(cmds) : IsNoDefault(cmds[m].command)

\* linux macos: the pass was issued, after the check of macos
C14_Witness ==
    /\ Done
    /\ exit_code = 0
    /\ args = <<"linux", "macos">>
    /\ Len(NoDefaultTriples) = 2
    /\ TripleOf(cmds[FirstNoDefault - 1].command) = "x86_64-apple-darwin"

----------------------------------------------------------------------------
\* C15: a no-default-features check names only the target triple and the
\* no-default-features flag and has no channel selector; a normal check and an install
\* carry the channel of the platform whose triple they name.
C15_ChannelSelectors ==
    \A k \in 1..Len(cmds) :
        LET c == cmds[k].command IN
        /\ IsNoDefault(c) =>
              /\ c = << <<"cargo">>, <<"check">>, <<"--target=", TripleOf(c)>>,
                        <<"--no-default-features">> >>
              /\ \A n \in 1..Len(c) : c[n][1] # "+"
              /\ ChannelOf(c) = NoChannel
        /\ (IsCheck(c) \/ IsInstall(c)) =>
              /\ ChannelOf(c) = Catalog[PlatformOf(TripleOf(c))].channel
              /\ Cardinality({n \in 1..Len(c) : c[n][1] = "+"}) = 1

\* linux redox: an install and a check on "nightly", then the pass without a channel
C15_Witness ==
    /\ Done
    /\ exit_code = 0
    /\ args = <<"linux", "redox">>
    /\ \E k \in 1..Len(cmds) : IsInstall(cmds[k].command) /\ ChannelOf(cmds[k].command) = "nightly"
    /\ \E k \in 1..Len(cmds) : IsCheck(cmds[k].command) /\ ChannelOf(cmds[k].command) = "nightly"
    /\ IsNoDefault(cmds[Len(cmds)].command)

----------------------------------------------------------------------------
\* how many installs of a (channel, triple) pair were issued
InstallCount(pair) ==
    Cardinality({k \in 1..Len(cmds) : IsInstall(cmds[k].command) /\ PairOf(cmds[k].command) = pair})

\* how many times the selected platforms name a pair
Occurrences(pair, pairs) == Cardinality({k \in 1..Len(pairs) : pairs[k] = pair})

\* in a run that succeeded, a pair missing from the snapshot was installed once for each
\* time its platform was named, and a pair in the snapshot was never installed
InstalledAgainEachTime ==
    (Done /\ exit_code = 0) =>
        LET expected == ExpectedPairs(SelectedEntries) IN
        \A m \in 1..Len(expected) :
            InstallCount(expected[m]) =
                (IF expected[m][2] \in installed[expected[m][1]] THEN 0
                 ELSE Occurrences(expected[m], expected))

\* C16: once get_installed_targets is over, no step changes the installed-target
\* snapshot, so every install decision is taken against the pre-run snapshot: a platform
\* named twice with a triple missing from the snapshot has that triple installed twice.
C16_SnapshotIsReadOnly ==
    /\ [][pc # "get_installed_targets" => installed' = installed]_vars
    /\ []InstalledAgainEachTime

\* redox named twice and missing from the snapshot of "nightly": installed twice
C16_Witness ==
    /\ Done
    /\ exit_code = 0
    /\ args = <<"redox", "redox">>
    /\ InstallCount(<<"nightly", "x86_64-unknown-redox">>) = 2

----------------------------------------------------------------------------
OutIsCommand(e) == e.kind = "command"

\* the commands echoed so far, without the colour escapes around them
Echoed == LET l == SelectSeq(out, OutIsCommand) IN [k \in 1..Len(l) |-> l[k].text.body]

\* the install and check commands executed so far
Executed == [k \in 1..Len(WorkCmds) |-> WorkCmds[k].command]

\* C17: every install and check command, normal or no-default-features, is echoed before
\* it is executed, the echoed text is the command executed, and nothing is echoed that is
\* not executed next: the echoed sequence is the executed sequence, ahead of it by the one
\* command about to be executed and equal to it otherwise, also in a run that aborts.
C17_EchoedIsExecuted ==
    /\ \A k \in 1..Len(out) :
          out[k].kind = "command" =>
             out[k].text = [prefix |-> "\\033[94m", body |-> out[k].text.body, suffix |-> "\\033[0m"]
    /\ IF pc = "subprocess_run"
       THEN Echoed = Append(Executed, command)
       ELSE Echoed = Executed

\* an aborted run: three commands echoed and executed, the last one failing
C17_Witness ==
    /\ Done
    /\ exit_code # 0
    /\ Len(Executed) = 3
    /\ cmds[Len(cmds)].returncode # 0
    /\ Echoed = Executed

----------------------------------------------------------------------------
\* The script is sequential: as long as every external command returns, its next
\* statement is executed.
LiveSpec == Init /\ [][Next]_vars /\ WF_vars(Next)

\* a step that ends the run in the failure state
AbortStep == Next /\ pc' = "exit" /\ exit_code' = ExitFailure

\* the positions from which the next step issues an external command
IssuesCommand == pc \in {"get_installed_targets", "subprocess_run"}

\* C18: every run eventually halts, with status 0 or in the single failure state (status
\* 1); the failure state can be entered from every position that issues an external
\* command (listing, install, check, no-default-features check); once the run has halted
\* no further external command is issued.
C18_HaltsInSuccessOrAbort ==
    /\ <>Done
    /\ [](Done => exit_code \in {0, ExitFailure})
    /\ [](IssuesCommand => ENABLED AbortStep)
    /\ [][Done => (Done' /\ cmds' = cmds /\ out' = out)]_vars

\* the run aborted on its last command, a no-default-features check
C18_Witness ==
    /\ Done
    /\ exit_code = ExitFailure
    /\ IsNoDefault(cmds[Len(cmds)].command)
    /\ cmds[Len(cmds)].returncode # 0
    /\ Len(NoDefaultTriples) = 2

----------------------------------------------------------------------------
(* Runs that select the whole catalog: without arguments, or with every    *)
(* catalog key as argument, in catalog order.                              *)

FullArgsInit ==
    /\ sys_platform \in Platforms
    /\ args \in {<<>>, Keys(OSS(sys_platform))}
    /\ pc = "get_installed_targets"
    /\ channel_i = 1
    /\ completed = NoCompleted
    /\ installed = [c \in {} |-> {}]
    /\ os_i = 0
    /\ t_i = 0
    /\ command = <<>>
    /\ caller = ""
    /\ out = <<>>
    /\ cmds = <<>>
    /\ exit_code = NoExit

FullArgsSpec == FullArgsInit /\ [][Next]_vars

\* lines 68-70 for one entry: the commands of its triples from the k-th on
RECURSIVE EntryCommands(_, _, _)
EntryCommands(inst, entry, k) ==
    IF k > Len(entry.ts) THEN <<>>
    ELSE (IF entry.ts[k] \notin inst[entry.channel]
          THEN <<RustupTargetInstallCommand(entry.channel, entry.ts[k])>> ELSE <<>>)
         \o <<CargoCheckCommand(entry.channel, entry.ts[k])>>
         \o EntryCommands(inst, entry, k + 1)

RECURSIVE EntriesCommands(_, _)
EntriesCommands(inst, entries) ==
    IF entries = <<>> THEN <<>>
    ELSE EntryCommands(inst, Head(entries), 1) \o EntriesCommands(inst, Tail(entries))

\* lines 66-75: the install and check commands of a no-argument run in which every
\* command succeeds, for a snapshot
FullRunCommands(inst, oss) ==
    EntriesCommands(inst, oss)
    \o [k \in 1..Len(OSSGet(oss, "linux").ts) |-> NoDefaultFeaturesCommand(OSSGet(oss, "linux").ts[k])]

\* what a no-argument run does: a prefix of FullRunCommands, all of it when it succeeds
AsNoArgumentRun ==
    SnapshotTaken =>
        /\ IsPrefix(Executed, FullRunCommands(installed, Catalog))
        /\ (Done /\ exit_code = 0) => Executed = FullRunCommands(installed, Catalog)
        /\ (Done /\ AllSucceeded) => exit_code = 0

\* the no-argument run itself issues FullRunCommands
NoArgumentRunIssuesFullRun == Len(args) = 0 => AsNoArgumentRun

\* C19 as stated: a run whose arguments name every catalog platform in catalog order
\* issues, for the same snapshot and the same command outcomes, the same sequence of
\* install, check and no-default-features commands as the no-argument run, and ends with
\* the same exit status.
C19_Claim == Len(args) > 0 => AsNoArgumentRun

----------------------------------------------------------------------------
(* Runs whose listings are made of generated lines: well-formed and        *)
(* malformed ones, with blanks at the ends and between the words.          *)

RawLines ==
    { <<"x86_64-unknown-linux-gnu", " ", "(installed)">>,
      <<" ", "x86_64-unknown-redox", " ", " ", "(installed)", " ">>,
      <<"x86_64-unknown-linux-musl">>,
      <<"x86_64-unknown-linux-gnu", " ", "(default)">>,
      <<"x86_64-unknown-linux-musl", " ", "(installed)", " ", "extra">>,
      <<"(installed)", " ", "x86_64-unknown-redox">> }

LineStdouts == SeqsUpTo(RawLines, MaxLines)

get_installed_targets_lines == GetInstalledTargets(LineStdouts)

ListingInit ==
    /\ sys_platform \in Platforms
    /\ args \in {<<>>, <<"redox">>}
    /\ pc = "get_installed_targets"
    /\ channel_i = 1
    /\ completed = NoCompleted
    /\ installed = [c \in {} |-> {}]
    /\ os_i = 0
    /\ t_i = 0
    /\ command = <<>>
    /\ caller = ""
    /\ out = <<>>
    /\ cmds = <<>>
    /\ exit_code = NoExit

ListingNext ==
    \/ get_installed_targets_lines
    \/ return_installed
    \/ for_os_all
    \/ for_os_args
    \/ for_t_all
    \/ for_t_args
    \/ run_cargo_check
    \/ run_command
    \/ subprocess_run
    \/ for_triple

ListingSpec == ListingInit /\ [][ListingNext]_vars

\* a listing has just succeeded and its output is still in `completed`
JustListed ==
    /\ pc \in {"get_installed_targets", "return_installed"}
    /\ channel_i > 1
    /\ completed.returncode = 0

\* the channel of the listing in `completed`
ListedChannel == Channels[channel_i - 1]

\* a line made of exactly the two words first and second, with blanks anywhere else
TwoWords(line, first, second) ==
    \E i \in 1..Len(line) : \E j \in (i + 1)..Len(line) :
        /\ line[i] = first
        /\ line[j] = second
        /\ \A n \in 1..Len(line) : n \notin {i, j} => line[n] = " "

\* what the set of a channel holds after its listing
ParsedFromTwoWordLines ==
    JustListed =>
        \A t \in (installed[ListedChannel] \cup
                 UNION {{completed.stdout[k][n] : n \in 1..Len(completed.stdout[k])} :
                           k \in 1..Len(completed.stdout)}) \ {" "} :
            t \in installed[ListedChannel]
            <=> \E k \in 1..Len(completed.stdout) : TwoWords(completed.stdout[k], t, "(installed)")

\* C20: a triple is in installed[channel] exactly when the successful listing output of
\* that channel has a line of exactly two whitespace-separated tokens, the triple and then
\* "(installed)"; a line of one token or of three or more adds nothing; the listing of one
\* channel never changes the set of the other channel.
C20_ParsedFromTwoTokenLines ==
    /\ []ParsedFromTwoWordLines
    /\ [][\A c \in DOMAIN installed :
             (c \in DOMAIN installed' /\ installed'[c] # installed[c]) =>
                 (pc = "get_installed_targets" /\ c = Channels[channel_i])]_vars

\* the listing of "nightly" held a valid redox line and a three-token line of musl; the
\* set of "stable" holds only the gnu triple
C20_Witness ==
    /\ pc = "return_installed"
    /\ completed.stdout = << <<" ", "x86_64-unknown-redox", " ", " ", "(installed)", " ">>,
                             <<"x86_64-unknown-linux-musl", " ", "(installed)", " ", "extra">> >>
    /\ installed["nightly"] = {"x86_64-unknown-redox"}
    /\ installed["stable"] = {"x86_64-unknown-linux-gnu"}
====
